---- MODULE Spec2Model ----
(***************************************************************************)
(* MPA.py: annotation of a VCF with the Mobidic Prioritization Algorithm   *)
(* score.  The module models process() and __main__ as a state machine    *)
(* and the classifiers as operators.                                       *)
(*                                                                         *)
(* Conventions.                                                            *)
(*  - A text (a Python str) is a sequence of one-character strings, so     *)
(*    that re.search is a real substring search.                           *)
(*  - Python None is Null, the empty tuple; no annotation value is the    *)
(*    empty text (the VCF reader turns "" and "." into None).              *)
(*  - Python False, as a classifier result, is 0: False is falsy and       *)
(*    compares as the integer 0; every rank is a positive integer.         *)
(*  - A splice score is a one-element tuple holding the number in tenths   *)
(*    (0.6 is <<6>>, -2 is <<-20>>); float() takes the number out.         *)
(*  - MPA_adjusted and MPA_final_score are exact rationals [num, den].     *)
(***************************************************************************)
EXTENDS Integers, Sequences, FiniteSets, TLC

VARIABLES pc, vcf_infos, consumed, written, out, log, ret, exit_status, args, result

vars == <<pc, vcf_infos, consumed, written, out, log, ret, exit_status, args, result>>

Null == << >>

PyFalse == 0

(***************************************************************************)
(* Bounds of the model.                                                    *)
(***************************************************************************)
MaxRecords == 2

MaxMissing == 1

(***************************************************************************)
(* The regular expressions of the source: all are literal texts.           *)
(***************************************************************************)
pat_pathogenic == <<"p","a","t","h","o","g","e","n","i","c">>
pat_benign == <<"b","e","n","i","g","n">>
pat_conflicting == <<"c","o","n","f","l","i","c","t","i","n","g">>
pat_splicing == <<"s","p","l","i","c","i","n","g">>
pat_stoploss == <<"s","t","o","p","l","o","s","s">>
pat_stopgain == <<"s","t","o","p","g","a","i","n">>
pat_frameshift == <<"f","r","a","m","e","s","h","i","f","t">>
pat_nonframeshift == <<"n","o","n","f","r","a","m","e","s","h","i","f","t">>
pat_nonsynonymous_SNV == <<"n","o","n","s","y","n","o","n","y","m","o","u","s","_","S","N","V">>
pat_unknown == <<"u","n","k","n","o","w","n">>
pat_exonic == <<"e","x","o","n","i","c">>

(***************************************************************************)
(* Annotation values the input records are drawn from.                     *)
(***************************************************************************)
txt_Pathogenic == <<"P","a","t","h","o","g","e","n","i","c">>
txt_PATHOGENIC == <<"P","A","T","H","O","G","E","N","I","C">>
txt_Likely_pathogenic == <<"L","i","k","e","l","y","_","p","a","t","h","o","g","e","n","i","c">>
txt_Pathogenic_Benign == <<"P","a","t","h","o","g","e","n","i","c","/","B","e","n","i","g","n">>
txt_Conflicting_interpretations_of_pathogenicity == <<"C","o","n","f","l","i","c","t","i","n","g","_","i","n","t","e","r","p","r","e","t","a","t","i","o","n","s","_","o","f","_","p","a","t","h","o","g","e","n","i","c","i","t","y">>
txt_Likely_benign == <<"L","i","k","e","l","y","_","b","e","n","i","g","n">>
txt_exonic == <<"e","x","o","n","i","c">>
txt_splicing == <<"s","p","l","i","c","i","n","g">>
txt_exonic_splicing == <<"e","x","o","n","i","c",";","s","p","l","i","c","i","n","g">>
txt_intronic == <<"i","n","t","r","o","n","i","c">>
txt_ncRNA_exonic == <<"n","c","R","N","A","_","e","x","o","n","i","c">>
txt_frameshift_insertion == <<"f","r","a","m","e","s","h","i","f","t","_","i","n","s","e","r","t","i","o","n">>
txt_nonframeshift_insertion == <<"n","o","n","f","r","a","m","e","s","h","i","f","t","_","i","n","s","e","r","t","i","o","n">>
txt_stopgain == <<"s","t","o","p","g","a","i","n">>
txt_stoploss == <<"s","t","o","p","l","o","s","s">>
txt_nonsynonymous_SNV == <<"n","o","n","s","y","n","o","n","y","m","o","u","s","_","S","N","V">>
txt_synonymous_SNV == <<"s","y","n","o","n","y","m","o","u","s","_","S","N","V">>
txt_unknown == <<"u","n","k","n","o","w","n">>
txt_frameshift_deletion_stopgain == <<"f","r","a","m","e","s","h","i","f","t","_","d","e","l","e","t","i","o","n",";","s","t","o","p","g","a","i","n">>
txt_unknown_nonsynonymous_SNV == <<"u","n","k","n","o","w","n",";","n","o","n","s","y","n","o","n","y","m","o","u","s","_","S","N","V">>
txt_nonframeshift_deletion_frameshift_insertion == <<"n","o","n","f","r","a","m","e","s","h","i","f","t","_","d","e","l","e","t","i","o","n",";","f","r","a","m","e","s","h","i","f","t","_","i","n","s","e","r","t","i","o","n">>
txt_A == <<"A">>
txt_A_comma_T == <<"A",",","T">>

(***************************************************************************)
(* Python helpers.                                                         *)
(***************************************************************************)
UpperCase == <<"A","B","C","D","E","F","G","H","I","J","K","L","M","N","O","P","Q","R","S","T","U","V","W","X","Y","Z">>

LowerCase == <<"a","b","c","d","e","f","g","h","i","j","k","l","m","n","o","p","q","r","s","t","u","v","w","x","y","z">>

ToLower(c) ==
    IF \E i \in 1..26 : UpperCase[i] = c
    THEN LowerCase[CHOOSE i \in 1..26 : UpperCase[i] = c]
    ELSE c

\* re.search(pattern, string, re.IGNORECASE) for a literal pattern, as a truth value
re_search(pattern, string) ==
    \E i \in 1..(Len(string) - Len(pattern) + 1) :
        \A j \in 1..Len(pattern) : ToLower(string[i + j - 1]) = ToLower(pattern[j])

\* re.search(pattern, None, ...) raises TypeError
re_search_raises(string) == string = Null

float(x) == x[1]

Truthy(x) == x # PyFalse

\* str.split(','): the pieces of the text between commas
RECURSIVE split(_, _, _)
split(string, piece, pieces) ==
    IF string = << >> THEN Append(pieces, piece)
    ELSE IF Head(string) = "," THEN split(Tail(string), << >>, Append(pieces, piece))
    ELSE split(Tail(string), Append(piece, Head(string)), pieces)

(***************************************************************************)
(* check_annotation, check_split_variants                                  *)
(***************************************************************************)
vcf_keys ==
    { "ExonicFunc.refGene", "FATHMM_pred", "Func.refGene", "dbscSNV_ADA_SCORE",
      "dbscSNV_RF_SCORE", "dpsi_zscore", "SIFT_pred", "Polyphen2_HDIV_pred",
      "Polyphen2_HVAR_pred", "LRT_pred", "MutationTaster_pred", "PROVEAN_pred",
      "fathmm-MKL_coding_pred", "MetaSVM_pred", "MetaLR_pred", "CLNSIG" }

MPA_infos ==
    { "MPA_adjusted", "MPA_available", "MPA_deleterious", "MPA_final_score",
      "MPA_impact", "MPA_ranking" }

NoExit == "no SystemExit"

\* mutant: the header is accepted as soon as it declares any required field
check_annotation_any_key(infos) ==
    IF vcf_keys \cap infos = {}
    THEN "VCF not correctly annotated."
    ELSE NoExit

\* the SystemExit message, or NoExit when the function returns None
check_annotation(infos) ==
    IF ~(vcf_keys \subseteq infos)
    THEN "VCF not correctly annotated."
    ELSE NoExit

check_split_variants(record) ==
    IF Len(split(record.REF, << >>, << >>)) > 1
    THEN "Multi references on vcf."
    ELSE IF Len(record.ALT) > 1
    THEN "Multi allelic variant on vcf."
    ELSE NoExit

(***************************************************************************)
(* calculate_adjusted_score                                                *)
(***************************************************************************)
PredictorKeys ==
    <<"SIFT", "HDIV", "HVAR", "LRT", "MutationTaster", "FATHMM", "PROVEAN",
      "MKL", "SVM", "LR">>

call_D == <<"D">>

call_T == <<"T">>

RECURSIVE count_scores(_, _, _)
count_scores(scores_impact, keys, acc) ==
    IF keys = << >> THEN acc
    ELSE LET impact == scores_impact[Head(keys)]
         IN  count_scores(scores_impact, Tail(keys),
                 IF impact = call_D
                 THEN [deleterious |-> acc.deleterious + 1, available |-> acc.available + 1]
                 ELSE IF impact # Null
                 THEN [acc EXCEPT !.available = @ + 1]
                 ELSE acc)

\* mutant: the proportion is taken over the 10 predictors, not the available ones
calculate_adjusted_score_over_all(scores_impact) ==
    LET c == count_scores(scores_impact, PredictorKeys, [deleterious |-> 0, available |-> 0])
    IN  [ adjusted    |-> IF c.available > 0
                          THEN [num |-> c.deleterious * 10, den |-> Len(PredictorKeys)]
                          ELSE [num |-> 0, den |-> 1],
          available   |-> c.available,
          deleterious |-> c.deleterious ]

calculate_adjusted_score(scores_impact) ==
    LET c == count_scores(scores_impact, PredictorKeys, [deleterious |-> 0, available |-> 0])
    IN  [ adjusted    |-> IF c.available > 0
                          THEN [num |-> c.deleterious * 10, den |-> c.available]
                          ELSE [num |-> 0, den |-> 1],
          available   |-> c.available,
          deleterious |-> c.deleterious ]

(***************************************************************************)
(* The classifiers                                                         *)
(***************************************************************************)
\* mutant: "conflicting" is not looked for
is_clinvar_pathogenic_ignores_conflicting(clinsig) ==
    IF clinsig = Null THEN PyFalse
    ELSE LET match_pathogenic == re_search(pat_pathogenic, clinsig)
             match_benign     == re_search(pat_benign, clinsig)
         IN  IF match_pathogenic /\ ~match_benign THEN 1 ELSE PyFalse

is_clinvar_pathogenic(clinsig) ==
    IF clinsig = Null THEN PyFalse
    ELSE LET match_pathogenic  == re_search(pat_pathogenic, clinsig)
             match_benign      == re_search(pat_benign, clinsig)
             match_conflicting == re_search(pat_conflicting, clinsig)
         IN  IF match_pathogenic /\ ~match_benign /\ ~match_conflicting
             THEN 1 ELSE PyFalse

SpliceThreshold == 6

ZscoreThreshold == 0 - 20

\* mutant: ADA is tested before RF
is_splice_impact_ADA_first(splices_scores, is_indel, funcRefGene) ==
    LET ADA_splice    == splices_scores.ADA # Null
                         /\ float(splices_scores.ADA) >= SpliceThreshold
        RF_splice     == splices_scores.RF # Null
                         /\ float(splices_scores.RF) >= SpliceThreshold
        Zscore_splice == splices_scores.Zscore # Null
                         /\ splices_scores.ADA = Null
                         /\ splices_scores.RF = Null
                         /\ float(splices_scores.Zscore) < ZscoreThreshold
        home_splice   == is_indel /\ re_search(pat_splicing, funcRefGene)
    IN  IF ADA_splice THEN 4
        ELSE IF RF_splice THEN 3
        ELSE IF Zscore_splice THEN 5
        ELSE IF home_splice THEN 6
        ELSE PyFalse

\* defined when funcRefGene is a text; see is_splice_impact_raises
is_splice_impact(splices_scores, is_indel, funcRefGene) ==
    LET ADA_splice    == splices_scores.ADA # Null
                         /\ float(splices_scores.ADA) >= SpliceThreshold
        RF_splice     == splices_scores.RF # Null
                         /\ float(splices_scores.RF) >= SpliceThreshold
        Zscore_splice == splices_scores.Zscore # Null
                         /\ splices_scores.ADA = Null
                         /\ splices_scores.RF = Null
                         /\ float(splices_scores.Zscore) < ZscoreThreshold
        match_splicing == re_search(pat_splicing, funcRefGene)
        home_splice   == is_indel /\ match_splicing
    IN  IF RF_splice THEN 3
        ELSE IF ADA_splice THEN 4
        ELSE IF Zscore_splice THEN 5
        ELSE IF home_splice THEN 6
        ELSE PyFalse

\* line 191 runs before the rules: a None funcRefGene raises TypeError
is_splice_impact_raises(splices_scores, is_indel, funcRefGene) ==
    re_search_raises(funcRefGene)

is_stop_impact(exonicFuncRefGene) ==
    LET match_stoploss == re_search(pat_stoploss, exonicFuncRefGene)
        match_stopgain == re_search(pat_stopgain, exonicFuncRefGene)
    IN  IF match_stopgain \/ match_stoploss THEN 2 ELSE PyFalse

is_frameshift_impact(exonicFuncRefGene) ==
    LET match_frameshift    == re_search(pat_frameshift, exonicFuncRefGene)
        match_nonframeshift == re_search(pat_nonframeshift, exonicFuncRefGene)
    IN  IF match_frameshift /\ ~match_nonframeshift THEN 2 ELSE PyFalse

is_missense_impact(exonicFuncRefGene) ==
    IF re_search(pat_nonsynonymous_SNV, exonicFuncRefGene) THEN 7 ELSE PyFalse

is_unknown_impact(exonicFuncRefGene) ==
    IF re_search(pat_unknown, exonicFuncRefGene) THEN 8 ELSE PyFalse

(***************************************************************************)
(* The body of the loop of process(), lines 309-393, for one record that   *)
(* passed check_split_variants.                                            *)
(***************************************************************************)
Ten == [num |-> 10, den |-> 1]

\* dict update d[k] = v: a new key is inserted, an old one keeps its place
SetItem(d, k, v) == [x \in DOMAIN d \cup {k} |-> IF x = k THEN v ELSE d[x]]

impacts_scores(record) ==
    [ SIFT           |-> record.INFO["SIFT_pred"],
      HDIV           |-> record.INFO["Polyphen2_HDIV_pred"],
      HVAR           |-> record.INFO["Polyphen2_HVAR_pred"],
      LRT            |-> record.INFO["LRT_pred"],
      MutationTaster |-> record.INFO["MutationTaster_pred"],
      FATHMM         |-> record.INFO["FATHMM_pred"],
      PROVEAN        |-> record.INFO["PROVEAN_pred"],
      MKL            |-> record.INFO["fathmm-MKL_coding_pred"],
      SVM            |-> record.INFO["MetaSVM_pred"],
      LR             |-> record.INFO["MetaLR_pred"] ]

splices_scores(record) ==
    [ ADA    |-> record.INFO["dbscSNV_ADA_SCORE"],
      RF     |-> record.INFO["dbscSNV_RF_SCORE"],
      Zscore |-> record.INFO["dpsi_zscore"] ]

\* the keys of meta_impact as created at lines 334-340, in insertion order
meta_impact_keys ==
    <<"clinvar_pathogenicity", "splice_impact", "stop_impact", "frameshift_impact",
      "unknown_impact">>

\* mutant: the exonic branch is entered whatever Func.refGene says
match_exonic_any_region(record) ==
    record.INFO["ExonicFunc.refGene"] # Null

match_exonic(record) ==
    re_search(pat_exonic, record.INFO["Func.refGene"])
    /\ record.INFO["ExonicFunc.refGene"] # Null

\* the iteration order of meta_impact at line 371: "missense_impact" is a new
\* key, inserted last, and only when the exonic branch ran
meta_impact_order(record) ==
    IF match_exonic(record)
    THEN Append(meta_impact_keys, "missense_impact")
    ELSE meta_impact_keys

\* meta_impact as it stands at line 366
meta_impact(record) ==
    LET init == [k \in {meta_impact_keys[i] : i \in 1..Len(meta_impact_keys)} |-> PyFalse]
        m1   == SetItem(init, "clinvar_pathogenicity",
                        is_clinvar_pathogenic(record.INFO["CLNSIG"]))
        m2   == SetItem(m1, "splice_impact",
                        is_splice_impact(splices_scores(record), record.is_indel,
                                         record.INFO["Func.refGene"]))
        exonicFuncRefGene == record.INFO["ExonicFunc.refGene"]
    IN  IF match_exonic(record)
        THEN LET m3 == SetItem(m2, "stop_impact", is_stop_impact(exonicFuncRefGene))
                 m4 == SetItem(m3, "frameshift_impact", is_frameshift_impact(exonicFuncRefGene))
                 m5 == SetItem(m4, "missense_impact", is_missense_impact(exonicFuncRefGene))
             IN  SetItem(m5, "unknown_impact", is_unknown_impact(exonicFuncRefGene))
        ELSE m2

\* mutant: the comparison is reversed, the largest fired rank is kept
rank_step_keeps_larger(meta, impact, st) ==
    IF Truthy(meta[impact])
    THEN LET MPA_impact == st.MPA_impact \o <<impact, ",">>
         IN  IF meta[impact] > st.rank \/ ~Truthy(st.rank)
             THEN [ rank           |-> meta[impact],
                    MPA_impact     |-> MPA_impact,
                    adjusted_score |->
                        SetItem(st.adjusted_score, "final_score",
                                IF impact = "unknown_impact" \/ impact = "missense_impact"
                                THEN st.adjusted_score["adjusted"]
                                ELSE Ten) ]
             ELSE [st EXCEPT !.MPA_impact = MPA_impact]
    ELSE st

\* mutant: final_score is set for every fired category, not only for a new minimum
rank_step_scores_every_fired(meta, impact, st) ==
    IF Truthy(meta[impact])
    THEN [ rank           |-> IF meta[impact] < st.rank \/ ~Truthy(st.rank)
                              THEN meta[impact] ELSE st.rank,
           MPA_impact     |-> st.MPA_impact \o <<impact, ",">>,
           adjusted_score |->
               SetItem(st.adjusted_score, "final_score",
                       IF impact = "unknown_impact" \/ impact = "missense_impact"
                       THEN st.adjusted_score["adjusted"]
                       ELSE Ten) ]
    ELSE st

\* one iteration of the loop at lines 371-379
rank_step(meta, impact, st) ==
    IF Truthy(meta[impact])
    THEN LET MPA_impact == st.MPA_impact \o <<impact, ",">>
         IN  IF meta[impact] < st.rank \/ ~Truthy(st.rank)
             THEN [ rank           |-> meta[impact],
                    MPA_impact     |-> MPA_impact,
                    adjusted_score |->
                        SetItem(st.adjusted_score, "final_score",
                                IF impact = "unknown_impact" \/ impact = "missense_impact"
                                THEN st.adjusted_score["adjusted"]
                                ELSE Ten) ]
             ELSE [st EXCEPT !.MPA_impact = MPA_impact]
    ELSE st

RECURSIVE rank_loop(_, _, _)
rank_loop(meta, order, st) ==
    IF order = << >> THEN st
    ELSE rank_loop(meta, Tail(order), rank_step(meta, Head(order), st))

\* lines 368-385: the ranking of one variant, iterating meta in the given order
ranking(meta, order, adjusted_score) ==
    LET st == rank_loop(meta, order,
                        [rank |-> PyFalse, MPA_impact |-> << >>,
                         adjusted_score |-> adjusted_score])
    IN  IF ~Truthy(st.rank)
        THEN [ rank           |-> 8,
               MPA_impact     |-> <<"NULL", ",">>,
               adjusted_score |-> SetItem(st.adjusted_score, "final_score",
                                          st.adjusted_score["adjusted"]) ]
        ELSE st

\* lines 309-393: the record as handed to write_record
annotate(record) ==
    LET adjusted_score == calculate_adjusted_score(impacts_scores(record))
        r == ranking(meta_impact(record), meta_impact_order(record), adjusted_score)
        i1 == SetItem(record.INFO, "MPA_impact",
                      SubSeq(r.MPA_impact, 1, Len(r.MPA_impact) - 1))
        i2 == SetItem(i1, "MPA_ranking", r.rank)
        i3 == SetItem(i2, "MPA_adjusted", r.adjusted_score["adjusted"])
        i4 == SetItem(i3, "MPA_available", r.adjusted_score["available"])
        i5 == SetItem(i4, "MPA_deleterious", r.adjusted_score["deleterious"])
        i6 == SetItem(i5, "MPA_final_score", r.adjusted_score["final_score"])
    IN  [record EXCEPT !.INFO = i6]

\* an exception escapes the loop body: only line 349 can raise on a null value
annotate_raises(record) ==
    is_splice_impact_raises(splices_scores(record), record.is_indel,
                            record.INFO["Func.refGene"])

(***************************************************************************)
(* Input records.                                                          *)
(***************************************************************************)
PredictorInfos ==
    <<"SIFT_pred", "Polyphen2_HDIV_pred", "Polyphen2_HVAR_pred", "LRT_pred",
      "MutationTaster_pred", "FATHMM_pred", "PROVEAN_pred",
      "fathmm-MKL_coding_pred", "MetaSVM_pred", "MetaLR_pred">>

\* predictor calls: the first d are "D", the next t are "T", the others null
Calls(d, t) ==
    [i \in 1..Len(PredictorInfos) |->
        IF i <= d THEN call_D ELSE IF i <= d + t THEN call_T ELSE Null]

Record(ref, alt, indel, clnsig, func, exonicFunc, ada, rf, zscore, calls) ==
    [ REF      |-> ref,
      ALT      |-> alt,
      is_indel |-> indel,
      INFO     |->
        [k \in vcf_keys |->
            CASE k = "CLNSIG"             -> clnsig
              [] k = "Func.refGene"       -> func
              [] k = "ExonicFunc.refGene" -> exonicFunc
              [] k = "dbscSNV_ADA_SCORE"  -> ada
              [] k = "dbscSNV_RF_SCORE"   -> rf
              [] k = "dpsi_zscore"        -> zscore
              [] OTHER -> calls[CHOOSE i \in 1..Len(PredictorInfos) : PredictorInfos[i] = k]] ]

ClnsigValues ==
    { Null, txt_Pathogenic, txt_PATHOGENIC, txt_Likely_pathogenic, txt_Pathogenic_Benign,
      txt_Conflicting_interpretations_of_pathogenicity, txt_Likely_benign }

FuncTexts ==
    { txt_exonic, txt_splicing, txt_exonic_splicing, txt_intronic, txt_ncRNA_exonic }

ExonicFuncValues ==
    { Null, txt_frameshift_insertion, txt_nonframeshift_insertion, txt_stopgain,
      txt_stoploss, txt_nonsynonymous_SNV, txt_synonymous_SNV, txt_unknown,
      txt_frameshift_deletion_stopgain, txt_unknown_nonsynonymous_SNV,
      txt_nonframeshift_deletion_frameshift_insertion }

CallsValues == { Calls(0, 0), Calls(10, 0), Calls(5, 5), Calls(1, 2) }

\* the records the loop body is applied to
Records ==
    { Record(txt_A, <<"T">>, indel, clnsig, func, exonicFunc, ada, rf, zscore, calls) :
        indel \in BOOLEAN, clnsig \in ClnsigValues, func \in FuncTexts \cup {Null},
        exonicFunc \in ExonicFuncValues,
        ada \in {Null, <<6>>}, rf \in {Null, <<5>>, <<6>>},
        zscore \in {Null, <<0 - 30>>},
        calls \in CallsValues }

\* the records of the input files of process()
FileRecords ==
    { Record(ref, alt, FALSE, clnsig, func, exonicFunc, Null, rf, Null, calls) :
        ref \in {txt_A, txt_A_comma_T}, alt \in {<<"T">>, <<"T", "G">>},
        clnsig \in {Null, txt_Pathogenic}, func \in {Null, txt_exonic},
        exonicFunc \in {Null, txt_stopgain, txt_nonsynonymous_SNV},
        rf \in {Null, <<6>>}, calls \in {Calls(0, 0), Calls(5, 5)} }

\* the headers of the input files: at most MaxMissing required fields missing
Headers ==
    { vcf_keys \ missing : missing \in {m \in SUBSET vcf_keys : Cardinality(m) <= MaxMissing} }

(***************************************************************************)
(* process() and __main__                                                  *)
(***************************************************************************)
NoCall == [raised |-> FALSE, value |-> Null]

Init ==
    /\ pc = "main"
    /\ vcf_infos \in Headers
    /\ consumed = << >>
    /\ written = << >>
    /\ out = << >>
    /\ log = << >>
    /\ ret = Null
    /\ exit_status = Null
    /\ args = Null
    /\ result = NoCall

\* lines 440-446: logging set-up, then the call of process()
main_start ==
    /\ pc = "main"
    /\ log' = log \o <<<<"INFO", "Start MPA annotation">>, <<"INFO", "Command">>>>
    /\ pc' = "process"
    /\ UNCHANGED <<vcf_infos, consumed, written, out, ret, exit_status, args, result>>

\* lines 282-301: the reader and the writer are opened, the header is checked
process_check_annotation ==
    /\ pc = "process"
    /\ LET infos == vcf_infos \cup MPA_infos
           e     == check_annotation(infos)
           l     == log \o <<<<"INFO", "Read VCF">>, <<"INFO", "Check vcf annotations">>>>
       IN  IF e # NoExit
           THEN /\ log' = Append(l, <<"ERROR", e>>)
                /\ ret' = <<1>>
                /\ pc' = "returned"
           ELSE /\ log' = Append(l, <<"INFO", "Read the each variants">>)
                /\ ret' = ret
                /\ pc' = "loop"
    /\ UNCHANGED <<vcf_infos, consumed, written, out, exit_status, args, result>>

\* lines 302-395: one iteration of the loop over the records of the file
process_record(record) ==
    /\ pc = "loop"
    /\ Len(consumed) < MaxRecords
    /\ consumed' = Append(consumed, [REF |-> record.REF, ALT |-> record.ALT])
    /\ LET e == check_split_variants(record)
           n == Len(consumed) + 1
       IN  IF e # NoExit
           THEN /\ log' = log \o <<<<"ERROR", "record", n>>, <<"ERROR", e>>>>
                /\ UNCHANGED <<written, out, pc>>
           ELSE IF annotate_raises(record)
           THEN /\ pc' = "raised"
                /\ UNCHANGED <<written, out, log>>
           ELSE /\ written' = Append(written, n)
                /\ out' = <<annotate(record)>>
                /\ UNCHANGED <<pc, log>>
    /\ UNCHANGED <<vcf_infos, ret, exit_status, args, result>>

\* line 396: the file is exhausted, the writer is closed, process() returns None
process_end ==
    /\ pc = "loop"
    /\ ret' = Null
    /\ pc' = "returned"
    /\ UNCHANGED <<vcf_infos, consumed, written, out, log, exit_status, args, result>>

\* lines 446-447: the value process() returned is dropped; the script ends
main_end ==
    /\ pc = "returned"
    /\ log' = Append(log, <<"INFO", "End MPA annotation">>)
    /\ exit_status' = <<0>>
    /\ pc' = "exited"
    /\ UNCHANGED <<vcf_infos, consumed, written, out, ret, args, result>>

\* an exception nobody catches: the interpreter prints the traceback, status 1
main_traceback ==
    /\ pc = "raised"
    /\ exit_status' = <<1>>
    /\ pc' = "exited"
    /\ UNCHANGED <<vcf_infos, consumed, written, out, log, ret, args, result>>

Next ==
    \/ main_start
    \/ process_check_annotation
    \/ \E record \in FileRecords : process_record(record)
    \/ process_end
    \/ main_end
    \/ main_traceback

Spec == Init /\ [][Next]_vars

(***************************************************************************)
(* The functions on their own: the inputs are drawn in the initial state   *)
(* and one action applies the function.                                    *)
(***************************************************************************)
InitCall(inputs) ==
    /\ pc = "call"
    /\ args \in inputs
    /\ result = NoCall
    /\ vcf_infos = vcf_keys
    /\ consumed = << >>
    /\ written = << >>
    /\ out = << >>
    /\ log = << >>
    /\ ret = Null
    /\ exit_status = Null

Return(raised, value) ==
    /\ pc = "call"
    /\ pc' = "return"
    /\ result' = [raised |-> raised, value |-> value]
    /\ UNCHANGED <<vcf_infos, consumed, written, out, log, ret, exit_status, args>>

\* the loop body on every record of Records
InitRecord == InitCall({<<r>> : r \in Records})

call_annotate ==
    IF annotate_raises(args[1])
    THEN Return(TRUE, Null)
    ELSE Return(FALSE, annotate(args[1]))

SpecRecord == InitRecord /\ [][call_annotate]_vars

\* is_splice_impact on every combination of scores, indel flag and text
SpliceScores == {Null} \cup {<<x>> : x \in {0, 5, 6, 7, 9}}

Zscores == {Null} \cup {<<x>> : x \in {0 - 30, 0 - 21, 0 - 20, 0 - 19, 0, 25}}

InitSplice ==
    InitCall({ <<[ADA |-> ada, RF |-> rf, Zscore |-> z], indel, func>> :
                 ada \in SpliceScores, rf \in SpliceScores, z \in Zscores,
                 indel \in BOOLEAN, func \in FuncTexts })

call_is_splice_impact ==
    Return(FALSE, is_splice_impact(args[1], args[2], args[3]))

SpecSplice == InitSplice /\ [][call_is_splice_impact]_vars

\* calculate_adjusted_score on every set of 10 ternary predictor calls
InitScore ==
    InitCall({ <<s>> : s \in [{PredictorKeys[i] : i \in 1..Len(PredictorKeys)}
                                -> {call_D, call_T, Null}] })

call_calculate_adjusted_score ==
    Return(FALSE, calculate_adjusted_score(args[1]))

SpecScore == InitScore /\ [][call_calculate_adjusted_score]_vars

(***************************************************************************)
(* Properties.                                                             *)
(***************************************************************************)
Range(s) == {s[i] : i \in 1..Len(s)}

RatEq(a, b) == a.num * b.den = b.num * a.den

Fired(m) == {k \in DOMAIN m : m[k] # PyFalse}

MinFiredRank(m) ==
    IF Fired(m) = {} THEN 8
    ELSE CHOOSE r \in {m[k] : k \in Fired(m)} : \A k \in Fired(m) : r <= m[k]

Winners(m) == {k \in Fired(m) : m[k] = MinFiredRank(m)}

Orders(S) ==
    {o \in [1..Cardinality(S) -> S] : \A i, j \in 1..Cardinality(S) : i # j => o[i] # o[j]}

Written == pc = "return" /\ ~result.raised

HeaderIncomplete == \E k \in vcf_keys : k \notin vcf_infos

SingleAllele(r) ==
    /\ \A i \in 1..Len(r.REF) : r.REF[i] # ","
    /\ Len(r.ALT) <= 1

C2_FinalScoreByWinner ==
    Written =>
        LET m   == meta_impact(args[1])
            o   == result.value.INFO
            adj == calculate_adjusted_score(impacts_scores(args[1]))
        IN  /\ \A w \in Winners(m) :
                  IF w \in {"missense_impact", "unknown_impact"}
                  THEN RatEq(o["MPA_final_score"], o["MPA_adjusted"])
                  ELSE RatEq(o["MPA_final_score"], Ten)
            /\ Fired(m) = {} => RatEq(o["MPA_final_score"], o["MPA_adjusted"])
            /\ \A order \in Orders(Fired(m)) :
                  LET r == ranking(m, order, adj)
                  IN  /\ r.rank = o["MPA_ranking"]
                      /\ RatEq(r.adjusted_score["final_score"], o["MPA_final_score"])

C2_Witness ==
    /\ Written
    /\ Winners(meta_impact(args[1])) = {"stop_impact", "frameshift_impact"}
    /\ "splice_impact" \in Fired(meta_impact(args[1]))
    /\ result.value.INFO["MPA_final_score"] = Ten
    /\ ~RatEq(result.value.INFO["MPA_adjusted"], Ten)

\* C3: the records written are exactly the records read that have one reference
\* allele and at most one alternate allele, in the order of the file.
C3_WrittenAreTheSingleAlleleRecords ==
    written = SelectSeq([i \in 1..Len(consumed) |-> i],
                        LAMBDA i : SingleAllele(consumed[i]))

\* C4: when a required annotation field is missing from the header, no record
\* is ever read, classified or written.
C4_IncompleteHeaderWritesNothing ==
    HeaderIncomplete => consumed = << >> /\ written = << >> /\ out = << >>

C4_Witness ==
    /\ "CLNSIG" \notin vcf_infos
    /\ pc = "exited"
    /\ ret = <<1>>
    /\ \E i \in 1..Len(log) : log[i][1] = "ERROR"

\* C5: a run whose header lacks a required field ends with a non-zero exit
\* status, the cause having been logged.
C5_FatalFailureExitsNonZero ==
    (pc = "exited" /\ HeaderIncomplete) =>
        /\ exit_status # <<0>>
        /\ \E i \in 1..Len(log) : log[i][1] = "ERROR"

\* C6: no record that passed check_split_variants makes the run raise, whichever
\* of its annotation values are null: it is scored and written.
C6_NullValuesNeverRaise ==
    /\ pc # "raised"
    /\ \A n \in 1..Len(consumed) : SingleAllele(consumed[n]) => n \in Range(written)

\* C7: is_splice_impact returns the rank of the first rule that matches, in
\* the order RF >= 0.6 (3), ADA >= 0.6 (4), Zscore < -2 with ADA and RF absent
\* (5), indel in a "splicing" region (6), and False when none matches.
C7_SpliceFirstMatchWins ==
    pc = "return" =>
        LET s     == args[1]
            indel == args[2]
            func  == args[3]
        IN  result.value =
                IF s.RF # Null /\ s.RF[1] >= 6 THEN 3
                ELSE IF s.ADA # Null /\ s.ADA[1] >= 6 THEN 4
                ELSE IF s.Zscore # Null /\ s.ADA = Null /\ s.RF = Null /\ s.Zscore[1] < 0 - 20
                     THEN 5
                ELSE IF indel /\ func \in {txt_splicing, txt_exonic_splicing} THEN 6
                ELSE PyFalse

C7_Witness ==
    /\ pc = "return"
    /\ args[1].RF = <<7>>
    /\ args[1].ADA = <<9>>
    /\ result.value = 3

\* C8: calculate_adjusted_score counts the "D" calls as deleterious and the
\* non-null calls as available, 0 <= deleterious <= available <= 10; adjusted
\* is deleterious/available*10 when available > 0 and 0 when available = 0, and
\* lies in [0,10].
C8_AdjustedScore ==
    pc = "return" =>
        LET s  == args[1]
            r  == result.value
            nD == Cardinality({k \in DOMAIN s : s[k] = call_D})
            nA == Cardinality({k \in DOMAIN s : s[k] # Null})
        IN  /\ r.deleterious = nD
            /\ r.available = nA
            /\ 0 <= r.deleterious /\ r.deleterious <= r.available /\ r.available <= 10
            /\ r.adjusted.den > 0
            /\ nA > 0 => r.adjusted.num * nA = nD * 10 * r.adjusted.den
            /\ nA = 0 => r.adjusted.num = 0
            /\ 0 <= r.adjusted.num /\ r.adjusted.num <= 10 * r.adjusted.den

C8_Witness ==
    /\ pc = "return"
    /\ result.value.available = 0
    /\ result.value.adjusted.num = 0
    /\ \A k \in DOMAIN args[1] : args[1][k] = Null

\* C9: a written record whose CLNSIG contains "pathogenic" and neither "benign"
\* nor "conflicting" (whatever the case of the letters) has rank 1, final score
\* 10 and clinvar_pathogenicity in MPA_impact, whatever its other annotations;
\* with a null CLNSIG, or one containing "benign" or "conflicting",
\* clinvar_pathogenicity does not fire.
C9_ClinvarOverrides ==
    Written =>
        LET c == args[1].INFO["CLNSIG"]
            o == result.value.INFO
            m == meta_impact(args[1])
        IN  /\ (/\ re_search(pat_pathogenic, c)
                /\ ~re_search(pat_benign, c)
                /\ ~re_search(pat_conflicting, c))
               => /\ o["MPA_ranking"] = 1
                  /\ RatEq(o["MPA_final_score"], Ten)
                  /\ "clinvar_pathogenicity" \in Range(o["MPA_impact"])
            /\ (c = Null \/ re_search(pat_benign, c) \/ re_search(pat_conflicting, c))
               => /\ m["clinvar_pathogenicity"] = PyFalse
                  /\ "clinvar_pathogenicity" \notin Range(o["MPA_impact"])

C9_Witness ==
    /\ Written
    /\ args[1].INFO["CLNSIG"] = txt_Pathogenic
    /\ args[1].INFO["Func.refGene"] = txt_exonic
    /\ args[1].INFO["ExonicFunc.refGene"] = txt_nonsynonymous_SNV
    /\ \A i \in 1..Len(PredictorInfos) : args[1].INFO[PredictorInfos[i]] = call_D
    /\ result.value.INFO["MPA_ranking"] = 1
    /\ result.value.INFO["MPA_final_score"] = Ten
    /\ "missense_impact" \in Range(result.value.INFO["MPA_impact"])

\* C10: in a written record whose Func.refGene does not contain "exonic" or
\* whose ExonicFunc.refGene is null, none of stop_impact, frameshift_impact,
\* missense_impact and unknown_impact fires or is in MPA_impact; otherwise
\* frameshift_impact fires, with rank 2, exactly when ExonicFunc.refGene
\* contains "frameshift" and not "nonframeshift".
C10_ExonicGate ==
    Written =>
        LET func   == args[1].INFO["Func.refGene"]
            exfunc == args[1].INFO["ExonicFunc.refGene"]
            o      == result.value.INFO
            m      == meta_impact(args[1])
            gate   == re_search(pat_exonic, func) /\ exfunc # Null
            exonic == {"stop_impact", "frameshift_impact", "missense_impact", "unknown_impact"}
        IN  IF ~gate
            THEN \A k \in exonic :
                    /\ k \notin Range(o["MPA_impact"])
                    /\ k \in DOMAIN m => m[k] = PyFalse
            ELSE LET fs == /\ re_search(pat_frameshift, exfunc)
                           /\ ~re_search(pat_nonframeshift, exfunc)
                 IN  /\ fs <=> "frameshift_impact" \in Range(o["MPA_impact"])
                     /\ m["frameshift_impact"] = IF fs THEN 2 ELSE PyFalse

C10_Witness ==
    /\ Written
    /\ args[1].INFO["Func.refGene"] = txt_splicing
    /\ args[1].INFO["ExonicFunc.refGene"] = txt_frameshift_insertion
    /\ result.value.INFO["MPA_ranking"] = 8
    /\ result.value.INFO["MPA_impact"] = <<"NULL">>
====
